---- MODULE Spec2Model ----
(***************************************************************************)
(* Model of src/app.py: the Flask handler convert_pdf behind POST /convert. *)
(* A request is validated (field present, filename non-empty, ".pdf"       *)
(* extension), its bytes are read and rasterized, and the page images are  *)
(* returned as one JPEG or as a ZIP archive of JPEGs.  The handler is      *)
(* modelled twice: as the pure function ConvertPdf (one request, run to    *)
(* completion) and as a step machine with one program counter per request, *)
(* whose steps may interleave between requests.                            *)
(***************************************************************************)
EXTENDS Integers, Sequences, FiniteSets, TLC

\* ------------------------------------------------------------------ bounds
MaxNameLen == 5      \* longest filename enumerated in Spec
MaxPages == 3        \* longest page sequence enumerated in Spec
LongPages == 11      \* one extra long document (two-digit page numbers)
NumReq == 2          \* concurrently handled requests in SpecConc
LargePages == 86     \* pages of the large documents of SpecLarge

Requests == 1..NumReq

\* --------------------------------------------------------------- filenames
\* A filename is a sequence of one-character strings.
Alphabet == {"x", ".", "p", "d", "f", "P", "F"}

UpperCase == <<"A","B","C","D","E","F","G","H","I","J","K","L","M",
               "N","O","P","Q","R","S","T","U","V","W","X","Y","Z">>
LowerCase == <<"a","b","c","d","e","f","g","h","i","j","k","l","m",
               "n","o","p","q","r","s","t","u","v","w","x","y","z">>

\* str.lower() on one character
LowerChar(c) ==
  IF \E k \in 1..26 : UpperCase[k] = c
  THEN LowerCase[CHOOSE k \in 1..26 : UpperCase[k] = c]
  ELSE c

\* str.lower()
Lower(s) == [k \in 1..Len(s) |-> LowerChar(s[k])]

\* str.endswith(suffix)
EndsWith(s, suffix) ==
  /\ Len(s) >= Len(suffix)
  /\ SubSeq(s, Len(s) - Len(suffix) + 1, Len(s)) = suffix

PdfSuffix == <<".", "p", "d", "f">>

\* bool(FileStorage): a FileStorage is truthy iff its filename is non-empty
Truthy(filename) == filename # << >>

\* variant: endswith('pdf'), the dot forgotten
IsPdfNameNoDot(filename) ==
  Truthy(filename) /\ EndsWith(Lower(filename), <<"p", "d", "f">>)
\* pdf_file and pdf_file.filename.lower().endswith('.pdf')
IsPdfName(filename) == Truthy(filename) /\ EndsWith(Lower(filename), PdfSuffix)

\* all sequences over S of length at most n
SeqsUpTo(S, n) == UNION {[1..k -> S] : k \in 0..n}

\* ----------------------------------------------------------------- uploads
\* request.files: whether it holds the field pdfFile (and its filename), and
\* whether it holds some other file field.
NoUpload == [hasPdfFile |-> FALSE, hasOther |-> FALSE, filename |-> << >>]

UploadsOver(names) ==
  {[hasPdfFile |-> FALSE, hasOther |-> o, filename |-> << >>] : o \in BOOLEAN}
  \cup {[hasPdfFile |-> TRUE, hasOther |-> FALSE, filename |-> n] : n \in names}
  \cup {[hasPdfFile |-> TRUE, hasOther |-> TRUE, filename |-> n]
          : n \in names \cap {<< >>, <<".", "P", "d", "f">>, <<"x", ".", "p">>}}

Uploads == UploadsOver(SeqsUpTo(Alphabet, MaxNameLen))

ConcNames == {<< >>, <<"p", "d", "f">>, <<"x", ".", "P", "d", "F">>}
ConcUploads ==
  {NoUpload} \cup {[hasPdfFile |-> TRUE, hasOther |-> FALSE, filename |-> n] : n \in ConcNames}

\* ------------------------------------------------------------------ images
\* A page image: PIL image with a pixel content id, a mode and a size in
\* pixels.  jlen is the number of bytes of its JPEG encoding at quality 85
\* and zlen the number of bytes of that encoding once deflated (both are
\* functions of the pixels).  An A4 page at 150 dpi has 1240 x 1754 pixels.
ImgA == [id |-> 1, mode |-> "RGB", width |-> 1240, height |-> 1754,
         jlen |-> 48211, zlen |-> 48170]
ImgB == [id |-> 2, mode |-> "RGB", width |-> 1240, height |-> 1754,
         jlen |-> 51002, zlen |-> 50963]
\* a page in a mode JPEG cannot hold
ImgT == [id |-> 1, mode |-> "RGBA", width |-> 1240, height |-> 1754,
         jlen |-> 0, zlen |-> 0]
\* a page 437.5 inches wide and a point high: wider than a JPEG can be
ImgW == [id |-> 3, mode |-> "RGB", width |-> 65625, height |-> 2,
         jlen |-> 0, zlen |-> 0]
\* an A0 sheet (841 x 1189 mm) of photographic content: 4967 x 7022 pixels
\* at 150 dpi, whose JPEG at quality 85 takes 24 MiB (0.72 byte per pixel)
ImgPhoto == [id |-> 4, mode |-> "RGB", width |-> 4967, height |-> 7022,
             jlen |-> 25165824, zlen |-> 25140000]
Images == {ImgA, ImgB, ImgT}

JpegQuality == 85

\* the modes PIL writes as JPEG (JpegImagePlugin.RAWMODE)
RawModes == {"1", "L", "RGB", "RGBX", "CMYK", "YCbCr"}
\* the largest width or height the JPEG encoder accepts (JPEG_MAX_DIMENSION)
JpegMaxDimension == 65500

\* img.save(buf, format='JPEG', quality=q): PIL refuses the modes JPEG cannot
\* hold, then the encoder refuses a size beyond JpegMaxDimension; each
\* raises OSError.  Otherwise the buffer holds the encoding.
NoJpeg == [id |-> 0, quality |-> 0, len |-> 0, zlen |-> 0]
JpegSave(img, q) ==
  IF img.mode \notin RawModes
  THEN [raised |-> TRUE, text |-> "cannot write mode " \o img.mode \o " as JPEG",
        data |-> NoJpeg]
  ELSE IF img.width > JpegMaxDimension \/ img.height > JpegMaxDimension
  THEN [raised |-> TRUE, text |-> "encoder error -2 when writing image file",
        data |-> NoJpeg]
  ELSE [raised |-> FALSE, text |-> "",
        data |-> [id |-> img.id, quality |-> q, len |-> img.jlen, zlen |-> img.zlen]]

\* convert_from_bytes(pdf_bytes, dpi=150): the outcome of the external
\* rasterizer is either an exception or an ordered list of page images.
NoRaster == [raised |-> FALSE, text |-> "", pages |-> << >>]
RasterError == [raised |-> TRUE, text |-> "Unable to get page count.", pages |-> << >>]
RasterPages(p) == [raised |-> FALSE, text |-> "", pages |-> p]
LongDoc == [k \in 1..LongPages |-> IF k % 2 = 1 THEN ImgA ELSE ImgB]

\* documents with a page too wide to encode
WideDocs == {<<ImgW>>, <<ImgA, ImgW>>}

RasterOutcomes ==
  {RasterError} \cup {RasterPages(p) : p \in SeqsUpTo(Images, MaxPages)}
  \cup {RasterPages(LongDoc)} \cup {RasterPages(p) : p \in WideDocs}
ConcOutcomes ==
  {RasterError, RasterPages(<< >>), RasterPages(<<ImgA>>), RasterPages(<<ImgT>>),
   RasterPages(<<ImgA, ImgB>>), RasterPages(<<ImgB, ImgA>>),
   RasterPages(<<ImgB, ImgT>>)}

\* a document of n photographic sheets
PhotoDoc(n) == [k \in 1..n |-> ImgPhoto]
\* Large documents: LargePages sheets are the fewest whose archive exceeds
\* 2^31 - 1 bytes (85 entries take 2136903476 bytes, 86 take 2162043517).
LargeDocs ==
  {<<ImgA>>, PhotoDoc(LargePages - 1), PhotoDoc(LargePages),
   Append(PhotoDoc(LargePages - 1), ImgW), Append(PhotoDoc(LargePages), ImgW)}
LargeUploads ==
  {[hasPdfFile |-> TRUE, hasOther |-> FALSE, filename |-> <<"x", ".", "p", "d", "f">>]}
LargeOutcomes == {RasterPages(p) : p \in LargeDocs}

\* --------------------------------------------------------------- responses
TextBody(s) == [kind |-> "text", text |-> s]
JpegBody(j) == [kind |-> "jpeg", jpeg |-> j]
ZipBody(e) == [kind |-> "zip", entries |-> e]

NoResponse == [status |-> 0, mimetype |-> "", download_name |-> "", body |-> TextBody("")]

\* return "<text>", <status>
TextResponse(s, code) ==
  [status |-> code, mimetype |-> "text/html", download_name |-> "", body |-> TextBody(s)]

\* send_file(buf, mimetype=m, as_attachment=True, download_name=n)
SendFile(b, m, n) == [status |-> 200, mimetype |-> m, download_name |-> n, body |-> b]

MissingFieldResponse == TextResponse("No PDF file part in the request", 400)
NoSelectedFileResponse == TextResponse("No selected file", 400)
InvalidTypeResponse == TextResponse("Invalid file type. Please upload a PDF.", 400)
NoImagesResponse ==
  TextResponse("Could not convert PDF to images. Ensure PDF is valid.", 500)
ErrorResponse(e) == TextResponse("An error occurred during conversion: " \o e, 500)
ErrorLogLine(e) == "Error during PDF conversion: " \o e

\* ------------------------------------------------------------- entry names
Digits == <<"0", "1", "2", "3", "4", "5", "6", "7", "8", "9">>

RECURSIVE DecStr(_)
\* str(n) for n >= 0
DecStr(n) == IF n < 10 THEN Digits[n + 1] ELSE DecStr(n \div 10) \o Digits[(n % 10) + 1]

\* f'page_{i+1}.jpg' for the 0-based loop index i
PageName(i) == "page_" \o DecStr(i + 1) \o ".jpg"

\* ------------------------------------------------------------ the archive
\* zipfile.ZipFile(zip_buffer, 'a', zipfile.ZIP_DEFLATED, False): the fourth
\* argument is allowZip64 = False, so writestr and close raise LargeZipFile
\* where the archive would need the ZIP64 extensions.
Zip64Limit == 2147483647        \* zipfile.ZIP64_LIMIT = (1 << 31) - 1
ZipFilecountLimit == 65535      \* zipfile.ZIP_FILECOUNT_LIMIT = (1 << 16) - 1
\* file_size * 1.05 > ZIP64_LIMIT holds exactly for file_size > FilesizeLimit
\* (the check of ZipFile._open_to_write in CPython 3.11; no image of this
\* model is that large)
FilesizeLimit == 2045222520
LocalHeaderSize == 30           \* bytes of a local file header before the name

\* a position in the archive beyond Zip64Limit
Beyond == -1

\* position a + n, or Beyond when that exceeds Zip64Limit
Advance(a, n) ==
  IF a = Beyond \/ n = Beyond THEN Beyond
  ELSE IF n > Zip64Limit - a THEN Beyond
  ELSE a + n

\* bytes an entry takes in the archive: local header, name, deflated data
EntrySize(e) == LocalHeaderSize + Len(e.name) + e.data.zlen

RECURSIVE SumSizes(_, _, _)
\* the bytes taken by entries lo..hi
SumSizes(entries, lo, hi) ==
  IF lo > hi THEN 0
  ELSE IF lo = hi THEN EntrySize(entries[lo])
  ELSE LET mid == (lo + hi) \div 2 IN
       Advance(SumSizes(entries, lo, mid), SumSizes(entries, mid + 1, hi))

\* zf.start_dir: where the next entry, or the central directory, starts
ArchiveEnd(entries) == SumSizes(entries, 1, Len(entries))

RECURSIVE FirstBeyond(_, _, _)
\* the least k in lo..hi for which entries 1..k end beyond Zip64Limit, given
\* that entries 1..hi do
FirstBeyond(entries, lo, hi) ==
  IF lo >= hi THEN hi
  ELSE LET mid == (lo + hi) \div 2 IN
       IF SumSizes(entries, 1, mid) = Beyond THEN FirstBeyond(entries, lo, mid)
       ELSE FirstBeyond(entries, mid + 1, hi)

Min(a, b) == IF a <= b THEN a ELSE b

\* zf.writestr(name, data) on an archive holding entries: the text of the
\* LargeZipFile it raises (_open_to_write, then _writecheck), or "".
WriteStrError(entries, data) ==
  IF data.len > FilesizeLimit THEN "Filesize would require ZIP64 extensions"
  ELSE IF Len(entries) >= ZipFilecountLimit
  THEN "Files count would require ZIP64 extensions"
  ELSE IF data.len > Zip64Limit THEN "Filesize would require ZIP64 extensions"
  ELSE IF ArchiveEnd(entries) = Beyond
  THEN "Zipfile size would require ZIP64 extensions"
  ELSE ""

\* zf.close() at the exit of the with statement (_write_end_record): the
\* text of the LargeZipFile it raises, or "".
CloseError(entries) ==
  IF Len(entries) > ZipFilecountLimit
  THEN "Files count would require ZIP64 extensions"
  ELSE IF ArchiveEnd(entries) = Beyond
  THEN "Central directory offset would require ZIP64 extensions"
  ELSE ""

\* ------------------------------------------------- the handler as a function
\* the entry iteration k (1-based) of the loop of lines 60-64 writes
PageEntry(pages, k) ==
  [name |-> PageName(k - 1), data |-> JpegSave(pages[k], JpegQuality).data]

\* The with statement of lines 59-64: the loop writes entries until an
\* encoding or a writestr raises; leaving the block closes the archive, and
\* an exception raised by the close replaces the one that left the loop.
ZipEntries(pages) ==
  LET n == Len(pages)
      all == [k \in 1..n |-> PageEntry(pages, k)]
      \* the number of leading entries the archive holds below Zip64Limit
      room == IF ArchiveEnd(all) # Beyond THEN n ELSE FirstBeyond(all, 1, n) - 1
      \* the exception iteration k raises when iterations 1..k-1 raised none
      stop(k) ==
        LET j == JpegSave(pages[k], JpegQuality) IN
        IF j.raised THEN j.text
        \* (entries 1..k-1 end below Zip64Limit: only the sizes and the count matter)
        ELSE IF k - 1 <= room /\ k <= ZipFilecountLimit /\ j.data.len <= FilesizeLimit
        THEN ""
        ELSE WriteStrError(SubSeq(all, 1, k - 1), j.data)
      \* iterations room + 2 and ZipFilecountLimit + 1 raise when reached
      last == Min(n, Min(room + 2, ZipFilecountLimit + 1))
      stops == {k \in 1..last : stop(k) # ""}
      first == IF stops = {} THEN n + 1 ELSE CHOOSE k \in stops : \A m \in stops : k <= m
      written == SubSeq(all, 1, first - 1)
      inLoop == IF first > n THEN "" ELSE stop(first)
      atClose == CloseError(written)
      text == IF atClose # "" THEN atClose ELSE inLoop
  IN [raised |-> text # "", text |-> text, entries |-> written]

\* Lines 40-71: the body of the try statement and its except clause.
Convert(raster) ==
  IF raster.raised THEN ErrorResponse(raster.text)
  ELSE IF raster.pages = << >> THEN NoImagesResponse
  ELSE IF Len(raster.pages) = 1
  THEN LET j == JpegSave(raster.pages[1], JpegQuality) IN
       IF j.raised THEN ErrorResponse(j.text)
       ELSE SendFile(JpegBody(j.data), "image/jpeg", "converted_page_1.jpg")
  ELSE LET z == ZipEntries(raster.pages) IN
       IF z.raised THEN ErrorResponse(z.text)
       ELSE SendFile(ZipBody(z.entries), "application/zip", "converted_pages.zip")

\* convert_pdf run to completion on one upload, given the rasterizer's outcome.
ConvertPdf(up, raster) ==
  IF ~up.hasPdfFile THEN MissingFieldResponse
  ELSE IF up.filename = << >> THEN NoSelectedFileResponse
  ELSE IF IsPdfName(up.filename) THEN Convert(raster)
  ELSE InvalidTypeResponse

\* ---------------------------------------------- the handler as a step machine
VARIABLES
  pc,          \* pc[r]: the line request r is at ("idle", "l32", ..., "done")
  upload,      \* upload[r]: request.files of request r
  raster,      \* raster[r]: what convert_from_bytes returned or raised for r
  exc,         \* exc[r]: text of the exception raised in r ("" when none)
  zf,          \* zf[r]: entries written so far into r's archive
  idx,         \* idx[r]: the loop index i of line 60
  response,    \* response[r]: the response returned for r
  log,         \* standard output: the writes made to it, in order, each
               \* tagged by the request and the part of print that made it
  reads,       \* reads[r]: number of calls of pdf_file.read()
  rasterCalls  \* rasterCalls[r]: number of calls of convert_from_bytes

vars == <<pc, upload, raster, exc, zf, idx, response, log, reads, rasterCalls>>

Init ==
  /\ pc = [r \in Requests |-> "idle"]
  /\ upload = [r \in Requests |-> NoUpload]
  /\ raster = [r \in Requests |-> NoRaster]
  /\ exc = [r \in Requests |-> ""]
  /\ zf = [r \in Requests |-> << >>]
  /\ idx = [r \in Requests |-> 0]
  /\ response = [r \in Requests |-> NoResponse]
  /\ log = << >>
  /\ reads = [r \in Requests |-> 0]
  /\ rasterCalls = [r \in Requests |-> 0]

\* variant: the buffers kept at module level, shared by all calls
SharedSlot(r) == 1
\* zip_buffer, zf and img_byte_arr are locals of the call (lines 52, 58-61):
\* each request has its own.
Slot(r) == r

\* return <resp>
Return(r, resp) ==
  /\ response' = [response EXCEPT ![r] = resp]
  /\ pc' = [pc EXCEPT ![r] = "done"]

\* an exception with text e propagates to the except clause of line 68
Raise(r, e) ==
  /\ exc' = [exc EXCEPT ![r] = e]
  /\ pc' = [pc EXCEPT ![r] = "l70"]

\* A POST /convert request arrives with upload up.
Receive(r, ups) ==
  /\ pc[r] = "idle"
  /\ \E up \in ups : upload' = [upload EXCEPT ![r] = up]
  /\ pc' = [pc EXCEPT ![r] = "l32"]
  /\ UNCHANGED <<raster, exc, zf, idx, response, log, reads, rasterCalls>>

\* variant: the membership test inverted
CheckFieldInverted(r) ==
  /\ pc[r] = "l32"
  /\ IF upload[r].hasPdfFile
     THEN Return(r, MissingFieldResponse)
     ELSE pc' = [pc EXCEPT ![r] = "l36"] /\ UNCHANGED response
  /\ UNCHANGED <<upload, raster, exc, zf, idx, log, reads, rasterCalls>>
\* lines 32-33
CheckField(r) ==
  /\ pc[r] = "l32"
  /\ IF ~upload[r].hasPdfFile
     THEN Return(r, MissingFieldResponse)
     ELSE pc' = [pc EXCEPT ![r] = "l36"] /\ UNCHANGED response
  /\ UNCHANGED <<upload, raster, exc, zf, idx, log, reads, rasterCalls>>

\* variant: the empty-filename test left out
CheckFilenameSkipped(r) ==
  /\ pc[r] = "l36"
  /\ pc' = [pc EXCEPT ![r] = "l39"]
  /\ UNCHANGED <<upload, raster, exc, zf, idx, response, log, reads, rasterCalls>>
\* lines 35-37
CheckFilename(r) ==
  /\ pc[r] = "l36"
  /\ IF upload[r].filename = << >>
     THEN Return(r, NoSelectedFileResponse)
     ELSE pc' = [pc EXCEPT ![r] = "l39"] /\ UNCHANGED response
  /\ UNCHANGED <<upload, raster, exc, zf, idx, log, reads, rasterCalls>>

\* lines 39, 72-73
CheckExtension(r) ==
  /\ pc[r] = "l39"
  /\ IF IsPdfName(upload[r].filename)
     THEN pc' = [pc EXCEPT ![r] = "l41"] /\ UNCHANGED response
     ELSE Return(r, InvalidTypeResponse)
  /\ UNCHANGED <<upload, raster, exc, zf, idx, log, reads, rasterCalls>>

\* line 41
ReadUpload(r) ==
  /\ pc[r] = "l41"
  /\ reads' = [reads EXCEPT ![r] = @ + 1]
  /\ pc' = [pc EXCEPT ![r] = "l45"]
  /\ UNCHANGED <<upload, raster, exc, zf, idx, response, log, rasterCalls>>

\* line 45: the external rasterizer raises or returns the page images
Rasterize(r, outcomes) ==
  /\ pc[r] = "l45"
  /\ rasterCalls' = [rasterCalls EXCEPT ![r] = @ + 1]
  /\ \E o \in outcomes :
       /\ raster' = [raster EXCEPT ![r] = o]
       /\ IF o.raised
          THEN Raise(r, o.text)
          ELSE pc' = [pc EXCEPT ![r] = "l47"] /\ UNCHANGED exc
  /\ UNCHANGED <<upload, zf, idx, response, log, reads>>

\* variant: the empty-result test left out
CheckImagesSkipped(r) ==
  /\ pc[r] = "l47"
  /\ pc' = [pc EXCEPT ![r] = "l50"]
  /\ UNCHANGED <<upload, raster, exc, zf, idx, response, log, reads, rasterCalls>>
\* lines 47-48
CheckImages(r) ==
  /\ pc[r] = "l47"
  /\ IF raster[r].pages = << >>
     THEN Return(r, NoImagesResponse)
     ELSE pc' = [pc EXCEPT ![r] = "l50"] /\ UNCHANGED response
  /\ UNCHANGED <<upload, raster, exc, zf, idx, log, reads, rasterCalls>>

\* variant: the single-page branch left out
BranchOnCountAlwaysZip(r) ==
  /\ pc[r] = "l50"
  /\ pc' = [pc EXCEPT ![r] = "l60"]
  /\ zf' = [zf EXCEPT ![Slot(r)] = << >>]
  /\ idx' = [idx EXCEPT ![r] = 0]
  /\ UNCHANGED <<upload, raster, exc, response, log, reads, rasterCalls>>
\* lines 50, 56-60: branch on the page count; the archive starts empty
BranchOnCount(r) ==
  /\ pc[r] = "l50"
  /\ IF Len(raster[r].pages) = 1
     THEN pc' = [pc EXCEPT ![r] = "l53"] /\ UNCHANGED <<zf, idx>>
     ELSE /\ pc' = [pc EXCEPT ![r] = "l60"]
          /\ zf' = [zf EXCEPT ![Slot(r)] = << >>]
          /\ idx' = [idx EXCEPT ![r] = 0]
  /\ UNCHANGED <<upload, raster, exc, response, log, reads, rasterCalls>>

\* lines 52-55
SaveSingle(r) ==
  /\ pc[r] = "l53"
  /\ LET j == JpegSave(raster[r].pages[1], JpegQuality) IN
       IF j.raised
       THEN Raise(r, j.text) /\ UNCHANGED response
       ELSE /\ Return(r, SendFile(JpegBody(j.data), "image/jpeg", "converted_page_1.jpg"))
            /\ UNCHANGED exc
  /\ UNCHANGED <<upload, raster, zf, idx, log, reads, rasterCalls>>

\* lines 60-64: one iteration of the loop.  An exception raised by the
\* encoding or by writestr leaves the with block (pc "l59").
ZipPage(r) ==
  /\ pc[r] = "l60"
  /\ idx[r] < Len(raster[r].pages)
  /\ LET j == JpegSave(raster[r].pages[idx[r] + 1], JpegQuality)
         w == WriteStrError(zf[Slot(r)], j.data)
         e == IF j.raised THEN j.text ELSE w
     IN IF e # ""
        THEN /\ exc' = [exc EXCEPT ![r] = e]
             /\ pc' = [pc EXCEPT ![r] = "l59"]
             /\ UNCHANGED <<zf, idx>>
        ELSE /\ zf' = [zf EXCEPT ![Slot(r)] =
                             Append(@, [name |-> PageName(idx[r]), data |-> j.data])]
             /\ idx' = [idx EXCEPT ![r] = @ + 1]
             /\ UNCHANGED <<pc, exc>>
  /\ UNCHANGED <<upload, raster, response, log, reads, rasterCalls>>

\* line 59, the with block left after the last iteration: the archive is
\* closed, which raises when it needs the ZIP64 extensions
CloseArchive(r) ==
  /\ pc[r] = "l60"
  /\ idx[r] >= Len(raster[r].pages)
  /\ LET c == CloseError(zf[Slot(r)]) IN
       IF c # ""
       THEN Raise(r, c)
       ELSE pc' = [pc EXCEPT ![r] = "l65"] /\ UNCHANGED exc
  /\ UNCHANGED <<upload, raster, zf, idx, response, log, reads, rasterCalls>>

\* line 59, the with block left by an exception: the archive is closed
\* first, and an exception raised by the close replaces the pending one
CloseArchiveOnError(r) ==
  /\ pc[r] = "l59"
  /\ LET c == CloseError(zf[Slot(r)]) IN
       Raise(r, IF c # "" THEN c ELSE exc[r])
  /\ UNCHANGED <<upload, raster, zf, idx, response, log, reads, rasterCalls>>

\* lines 65-66: the archive is sent
SendZip(r) ==
  /\ pc[r] = "l65"
  /\ Return(r, SendFile(ZipBody(zf[Slot(r)]), "application/zip", "converted_pages.zip"))
  /\ UNCHANGED <<upload, raster, exc, zf, idx, log, reads, rasterCalls>>

\* print(text) makes two writes to sys.stdout: the text, then "\n".  The
\* stream is shared by all requests and not synchronised, so another
\* request's writes can fall between the two.  log records the write calls
\* in the order they are made.

\* variant: the except clause without its print
WriteErrorTextSilent(r) ==
  /\ pc[r] = "l70"
  /\ pc' = [pc EXCEPT ![r] = "l71"]
  /\ UNCHANGED <<upload, raster, exc, zf, idx, response, log, reads, rasterCalls>>
\* lines 68-70: the exception is caught; print writes the text
WriteErrorText(r) ==
  /\ pc[r] = "l70"
  /\ log' = Append(log, [by |-> r, part |-> "text", text |-> ErrorLogLine(exc[r])])
  /\ pc' = [pc EXCEPT ![r] = "l70n"]
  /\ UNCHANGED <<upload, raster, exc, zf, idx, response, reads, rasterCalls>>

\* line 70: print writes the newline
WriteErrorNewline(r) ==
  /\ pc[r] = "l70n"
  /\ log' = Append(log, [by |-> r, part |-> "end", text |-> "\n"])
  /\ pc' = [pc EXCEPT ![r] = "l71"]
  /\ UNCHANGED <<upload, raster, exc, zf, idx, response, reads, rasterCalls>>

\* variant: the except clause retrying the conversion once
ReturnErrorRetry(r) ==
  /\ pc[r] = "l71"
  /\ IF rasterCalls[r] < 2
     THEN pc' = [pc EXCEPT ![r] = "l45"] /\ UNCHANGED response
     ELSE Return(r, ErrorResponse(exc[r]))
  /\ UNCHANGED <<upload, raster, exc, zf, idx, log, reads, rasterCalls>>
\* line 71
ReturnError(r) ==
  /\ pc[r] = "l71"
  /\ Return(r, ErrorResponse(exc[r]))
  /\ UNCHANGED <<upload, raster, exc, zf, idx, log, reads, rasterCalls>>

\* One request, every upload and every rasterizer outcome within the bounds.
Next ==
  \/ Receive(1, Uploads)
  \/ CheckField(1)
  \/ CheckFilename(1)
  \/ CheckExtension(1)
  \/ ReadUpload(1)
  \/ Rasterize(1, RasterOutcomes)
  \/ CheckImages(1)
  \/ BranchOnCount(1)
  \/ SaveSingle(1)
  \/ ZipPage(1)
  \/ CloseArchive(1)
  \/ CloseArchiveOnError(1)
  \/ SendZip(1)
  \/ WriteErrorText(1)
  \/ WriteErrorNewline(1)
  \/ ReturnError(1)

Spec == Init /\ [][Next]_vars

\* NumReq requests handled concurrently, their steps interleaved.
NextConc ==
  \E r \in Requests :
    \/ Receive(r, ConcUploads)
    \/ CheckField(r)
    \/ CheckFilename(r)
    \/ CheckExtension(r)
    \/ ReadUpload(r)
    \/ Rasterize(r, ConcOutcomes)
    \/ CheckImages(r)
    \/ BranchOnCount(r)
    \/ SaveSingle(r)
    \/ ZipPage(r)
    \/ CloseArchive(r)
    \/ CloseArchiveOnError(r)
    \/ SendZip(r)
    \/ WriteErrorText(r)
    \/ WriteErrorNewline(r)
    \/ ReturnError(r)

SpecConc == Init /\ [][NextConc]_vars

\* One request with a well-named upload whose document is large.
NextLarge ==
  \/ Receive(1, LargeUploads)
  \/ CheckField(1)
  \/ CheckFilename(1)
  \/ CheckExtension(1)
  \/ ReadUpload(1)
  \/ Rasterize(1, LargeOutcomes)
  \/ CheckImages(1)
  \/ BranchOnCount(1)
  \/ SaveSingle(1)
  \/ ZipPage(1)
  \/ CloseArchive(1)
  \/ CloseArchiveOnError(1)
  \/ SendZip(1)
  \/ WriteErrorText(1)
  \/ WriteErrorNewline(1)
  \/ ReturnError(1)

SpecLarge == Init /\ [][NextLarge]_vars

\* ------------------------------------------------------------------ claims
Done(r) == pc[r] = "done"
Status(r) == response[r].status
Body(r) == response[r].body

\* the filename ends in ".pdf", compared case-insensitively
EndsInPdf(filename) == EndsWith(Lower(filename), PdfSuffix)

\* the upload passes all three validation checks
ValidUpload(r) ==
  /\ upload[r].hasPdfFile
  /\ upload[r].filename # << >>
  /\ EndsInPdf(upload[r].filename)

\* the page can be written as JPEG: a mode JPEG holds, at most 65500 pixels
\* wide and high
Encodable(img) ==
  /\ img.mode \in {"1", "L", "RGB", "RGBX", "CMYK", "YCbCr"}
  /\ img.width <= 65500 /\ img.height <= 65500
AllEncodable(pages) == \A k \in 1..Len(pages) : Encodable(pages[k])

\* the rasterizer returned pages without raising
Rasterized(r) == rasterCalls[r] >= 1 /\ ~raster[r].raised

\* the name of the k-th entry, the JPEG of a page, and the archive entries
\* of a list of pages
ExpectedName(k) == "page_" \o ToString(k) \o ".jpg"
ExpectedJpeg(img) ==
  [id |-> img.id, quality |-> 85, len |-> img.jlen, zlen |-> img.zlen]
ExpectedEntries(pages) ==
  [k \in 1..Len(pages) |-> [name |-> ExpectedName(k), data |-> ExpectedJpeg(pages[k])]]

\* the first page whose encoding raises
FirstBad(pages) ==
  LET bad == {k \in 1..Len(pages) : ~Encodable(pages[k])}
  IN CHOOSE k \in bad : \A m \in bad : k <= m

\* the encoding of some page is run and raises: in a multi-page document the
\* pages before it were written, each within what writestr accepts (at most
\* 65535 entries, no JPEG above 2045222520 bytes, each entry starting at
\* most 2^31 - 1 bytes into the archive)
EncoderRaises(pages) ==
  /\ ~AllEncodable(pages)
  /\ Len(pages) > 1 =>
       LET b == FirstBad(pages) IN
       /\ b - 1 <= 65535
       /\ \A i \in 1..(b - 1) : pages[i].jlen <= 2045222520
       /\ b >= 3 => ArchiveEnd(SubSeq(ExpectedEntries(pages), 1, b - 2)) # Beyond

\* the rasterizer or an encoding raises for r
ConversionRaises(r) ==
  /\ ValidUpload(r)
  /\ rasterCalls[r] >= 1
  /\ raster[r].raised \/ EncoderRaises(raster[r].pages)

\* the text of the exception the rasterizer or the encoding raises for r
FailureText(r) ==
  IF raster[r].raised THEN raster[r].text
  ELSE LET img == raster[r].pages[FirstBad(raster[r].pages)] IN
       IF img.width > 65500 \/ img.height > 65500
       THEN "encoder error -2 when writing image file"
       ELSE "cannot write mode " \o img.mode \o " as JPEG"

\* request r printed its diagnostic line: the text, then the newline
PrintedLine(r) ==
  \E i, j \in 1..Len(log) :
    /\ i < j
    /\ log[i].by = r /\ log[i].part = "text"
    /\ log[i].text = "Error during PDF conversion: " \o exc[r]
    /\ log[j].by = r /\ log[j].part = "end" /\ log[j].text = "\n"
WroteAny(r) == \E k \in 1..Len(log) : log[k].by = r

\* C1: a request whose form has no field pdfFile is answered 400 with body
\* "No PDF file part in the request", whatever else the form holds.
C1_MissingField ==
  \A r \in Requests :
    Done(r) /\ ~upload[r].hasPdfFile =>
      /\ Status(r) = 400
      /\ Body(r) = TextBody("No PDF file part in the request")

C1_Witness ==
  \E r \in Requests :
    Done(r) /\ ~upload[r].hasPdfFile /\ upload[r].hasOther /\ Status(r) = 400

\* C2: a request whose field pdfFile has the empty filename is answered 400
\* with body "No selected file".
C2_EmptyFilename ==
  \A r \in Requests :
    Done(r) /\ upload[r].hasPdfFile /\ upload[r].filename = << >> =>
      /\ Status(r) = 400
      /\ Body(r) = TextBody("No selected file")

C2_Witness ==
  \E r \in Requests :
    Done(r) /\ upload[r].hasPdfFile /\ upload[r].filename = << >> /\ Status(r) = 400

\* C3 as stated: every upload whose filename does not end in ".pdf"
\* (case-insensitively) is answered 400 "Invalid file type. Please upload a PDF.".
C3_AsStated ==
  \A r \in Requests :
    Done(r) /\ upload[r].hasPdfFile /\ ~EndsInPdf(upload[r].filename) =>
      /\ Status(r) = 400
      /\ Body(r) = TextBody("Invalid file type. Please upload a PDF.")

\* C3 amended: every upload whose filename is non-empty and does not end in
\* ".pdf" (case-insensitively) is answered 400 "Invalid file type. Please
\* upload a PDF.".
C3_InvalidType ==
  \A r \in Requests :
    /\ Done(r) /\ upload[r].hasPdfFile
    /\ upload[r].filename # << >> /\ ~EndsInPdf(upload[r].filename)
    => /\ Status(r) = 400
       /\ Body(r) = TextBody("Invalid file type. Please upload a PDF.")

C3_Witness ==
  \E r \in Requests :
    /\ Done(r) /\ upload[r].hasPdfFile
    /\ upload[r].filename = <<"x", "p", "d", "f">>
    /\ Body(r) = TextBody("Invalid file type. Please upload a PDF.")

\* the response C4 describes for the pages of r
IsZipOfPages(r) ==
  /\ Status(r) = 200
  /\ response[r].mimetype = "application/zip"
  /\ response[r].download_name = "converted_pages.zip"
  /\ Body(r).kind = "zip"
  /\ Len(Body(r).entries) = Len(raster[r].pages)
  /\ \A k \in 1..Len(raster[r].pages) :
       /\ Body(r).entries[k].name = ExpectedName(k)
       /\ Body(r).entries[k].data = ExpectedJpeg(raster[r].pages[k])

\* C4: a valid upload rasterized to N > 1 pages, all of which encode, is
\* answered 200 application/zip, attachment converted_pages.zip, with exactly
\* N entries page_1.jpg ... page_N.jpg, entry i holding the JPEG of page i.
C4_AsStated ==
  \A r \in Requests :
    /\ Done(r) /\ ValidUpload(r) /\ Rasterized(r)
    /\ Len(raster[r].pages) > 1 /\ AllEncodable(raster[r].pages)
    => IsZipOfPages(r)

\* C5: a valid upload rasterized to exactly one page that encodes is answered
\* 200 image/jpeg, attachment converted_page_1.jpg, the body being the JPEG
\* of that page and never an archive.
C5_SingleJpeg ==
  \A r \in Requests :
    /\ Done(r) /\ ValidUpload(r) /\ Rasterized(r)
    /\ Len(raster[r].pages) = 1 /\ Encodable(raster[r].pages[1])
    => /\ Status(r) = 200
       /\ response[r].mimetype = "image/jpeg"
       /\ response[r].download_name = "converted_page_1.jpg"
       /\ Body(r) = JpegBody(ExpectedJpeg(raster[r].pages[1]))

C5_Witness ==
  \E r \in Requests :
    /\ Done(r) /\ Rasterized(r) /\ raster[r].pages = <<ImgB>>
    /\ upload[r].filename = <<"x", ".", "P", "d", "F">>
    /\ Status(r) = 200 /\ Body(r).kind = "jpeg"

\* C6: a valid upload for which the rasterizer returns no page is answered
\* 500 with the text that the PDF could not be converted; never 200, never
\* an empty archive.
C6_ZeroPages ==
  \A r \in Requests :
    Done(r) /\ ValidUpload(r) /\ Rasterized(r) /\ raster[r].pages = << >> =>
      /\ Status(r) = 500
      /\ Body(r) = TextBody("Could not convert PDF to images. Ensure PDF is valid.")

C6_Witness ==
  \E r \in Requests :
    Done(r) /\ ValidUpload(r) /\ Rasterized(r) /\ raster[r].pages = << >>
      /\ Status(r) = 500

\* C7: when the rasterizer or the encoding of any page raises, the exception
\* is caught and the request is answered 500 with that exception's text in
\* the body; no 200 with a partial archive or image is returned.
C7_AsStated ==
  \A r \in Requests :
    Done(r) /\ ConversionRaises(r) =>
      /\ Status(r) = 500
      /\ Body(r) = TextBody("An error occurred during conversion: " \o FailureText(r))

\* a conversion error of r: an exception, or a zero-page result
ConversionError(r) ==
  ConversionRaises(r) \/ (ValidUpload(r) /\ Rasterized(r) /\ raster[r].pages = << >>)

C9_RasterizeOnceAfterValidation ==
  \A r \in Requests :
    /\ rasterCalls[r] <= 1 /\ reads[r] <= 1
    /\ rasterCalls[r] >= 1 \/ reads[r] >= 1 => ValidUpload(r)
    /\ Status(r) = 400 => reads[r] = 0 /\ rasterCalls[r] = 0
    /\ Done(r) /\ Status(r) = 500 => rasterCalls[r] = 1

C9_Witness ==
  \E r1, r2 \in Requests :
    /\ Done(r1) /\ Status(r1) = 400 /\ upload[r1].filename = <<"p", "d", "f">>
    /\ reads[r1] = 0 /\ rasterCalls[r1] = 0
    /\ Done(r2) /\ Status(r2) = 500 /\ raster[r2].raised /\ rasterCalls[r2] = 1

\* C10: under any interleaving of the requests' steps, each response is the
\* one the handler gives that request's upload and rasterizer outcome when
\* run alone.
C10_Independent ==
  \A r \in Requests :
    Done(r) => response[r] = ConvertPdf(upload[r], raster[r])

C10_Witness ==
  \E r1, r2 \in Requests :
    /\ Done(r1) /\ Status(r1) = 200 /\ Body(r1).kind = "zip"
    /\ Done(r2) /\ Status(r2) = 200 /\ Body(r2).kind = "zip"
    /\ Body(r1) # Body(r2)

====
